---- MODULE Spec2Model ----
(***************************************************************************)
(* A model of data_processing.py: the pipeline main() runs (directory      *)
(* check, load_data, three chart renderers, extract_quotes, the write of   *)
(* quotes.json, generate_statistics), the pure computations of             *)
(* extract_quotes and generate_statistics, and pyplot's current-figure     *)
(* state the three renderers draw, save and close through.                 *)
(***************************************************************************)
EXTENDS Integers, Sequences, FiniteSets, TLC

VARIABLES
    dataDir,      \* os.path.exists(DATA_DIR)
    fileStatus,   \* input file -> "ok" | "missing" | "unreadable"
    timelineCsv,  \* rows of data/doc_timeline.csv
    mergedCsv,    \* rows of data/merged_textinfo_by_subject_and_year.csv
    corpus,       \* text of data/educationcomms.txt, a sequence of tokens
    outputFault,  \* the output file whose open-for-write raises, or NoFault
    pc,           \* position of main()
    tables,       \* (doc_timeline, merged_data) once load_data returned
    quotes,       \* main's local `quotes`
    stats,        \* what generate_statistics returned or raised
    outputs,      \* output file -> content, for the files written so far
    printed,      \* diagnostics printed so far
    called,       \* functions main() has invoked so far
    plt,          \* pyplot's figures: the open ones, and what was done to each
    mode,         \* how the renderers are scheduled
    rpc,          \* renderer -> its position
    rfig          \* renderer -> the figure its plt.subplots returned (0: none)

vars == <<dataDir, fileStatus, timelineCsv, mergedCsv, corpus, outputFault,
          pc, tables, quotes, stats, outputs, printed, called,
          plt, mode, rpc, rfig>>

envVars == <<dataDir, fileStatus, timelineCsv, mergedCsv, corpus, outputFault>>
mainVars == <<pc, tables, quotes, stats, printed, called>>
rendVars == <<mode, rpc, rfig>>

Min(a, b) == IF a < b THEN a ELSE b

----------------------------------------------------------------------------
(* Files.                                                                  *)

TimelineFile == "doc_timeline.csv"
SubjectsFile == "subject_names.csv"
MergedFile   == "merged_textinfo_by_subject_and_year.csv"
CorpusFile   == "educationcomms.txt"

\* The files load_data reads, in the order it reads them.
CsvFiles == <<TimelineFile, SubjectsFile, MergedFile>>

\* The files the guidance printed by main() lists as required.
RequiredFiles == {TimelineFile, CorpusFile, MergedFile, SubjectsFile}

TimelinePng == "timeline_chart.png"
SubjectsPng == "language_subjects_chart.png"
TrendsPng   == "language_trends_chart.png"
QuotesJson  == "quotes.json"
StatsJson   == "statistics.json"

\* The outputs in the order main() writes them.
OutputOrder == <<TimelinePng, SubjectsPng, TrendsPng, QuotesJson, StatsJson>>
OutputFiles == {OutputOrder[i] : i \in 1..Len(OutputOrder)}

NoFault == "none"
Statuses == {"ok", "missing", "unreadable"}

----------------------------------------------------------------------------
(* Tables.  A timeline row is [Year, Count]; a merged row is               *)
(* [Subject, Year, Count].  A Subject is a sequence of words; an empty     *)
(* cell, which read_csv reads as NaN, is the sequence of no words.         *)

NaN == <<>>

RECURSIVE SumCount(_)
SumCount(rows) ==
    IF rows = <<>> THEN 0 ELSE Head(rows).Count + SumCount(Tail(rows))

\* Series.max() / Series.min() of the Year column of a table with rows.
YearMax(rows) ==
    LET ys == {rows[i].Year : i \in 1..Len(rows)}
    IN  CHOOSE y \in ys : \A z \in ys : z <= y

YearMin(rows) ==
    LET ys == {rows[i].Year : i \in 1..Len(rows)}
    IN  CHOOSE y \in ys : \A z \in ys : y <= z

WarFirst == 1939
WarLast  == 1945

\* between() with its right end left out.
BetweenRightOpen(y, left, right) == left <= y /\ y < right

\* Series.between(left, right): inclusive of both ends.
Between(y, left, right) == left <= y /\ y <= right

InWarYears(row) == Between(row.Year, WarFirst, WarLast)

\* A substring test in place of the equality.
IsEnglishBySubstring(row) ==
    \E i \in 1..Len(row.Subject) : row.Subject[i] = "ENGLISH"

\* merged_data['Subject'] == 'ENGLISH'
IsEnglish(row) == row.Subject = <<"ENGLISH">>

\* An equality test in place of the substring test.
IsGaelicExactly(row) == row.Subject = <<"GAELIC">>

\* Series.str.contains('GAELIC', na=False)
ContainsGaelic(row) ==
    IF row.Subject = NaN THEN FALSE   \* na=False
    ELSE \E i \in 1..Len(row.Subject) : row.Subject[i] = "GAELIC"

\* read_csv gives a column whose every cell is empty the dtype float64, and
\* the .str accessor of such a column raises; an empty table keeps object.
SubjectIsStringColumn(rows) ==
    rows = <<>> \/ \E i \in 1..Len(rows) : rows[i].Subject # NaN

Raised == [ok |-> FALSE]

\* generate_statistics up to the write of statistics.json.  On a timeline
\* with no rows max() and min() are nan and int(nan) raises ValueError.
GenerateStatistics(doc_timeline, merged_data) ==
    IF doc_timeline = <<>> THEN Raised
    ELSE IF ~SubjectIsStringColumn(merged_data) THEN Raised
    ELSE [ok |-> TRUE,
          total_years     |-> YearMax(doc_timeline) - YearMin(doc_timeline),
          total_documents |-> SumCount(doc_timeline),
          war_year_drop   |-> SumCount(SelectSeq(doc_timeline, InWarYears)),
          english_dominance |-> SumCount(SelectSeq(merged_data, IsEnglish)),
          gaelic_presence |-> SumCount(SelectSeq(merged_data, ContainsGaelic))]

----------------------------------------------------------------------------
(* Text.  The corpus is a sequence of tokens: the period, a blank, the two *)
(* words extract_quotes looks for, and runs of other text, which hold      *)
(* neither word.  A token's length is its number of characters.            *)

Period == "."
Blank  == " "

TokLen(t) ==
    CASE t = "English"     -> 7
      [] t = "certificate" -> 11
      [] t = "english"     -> 7
      [] t = "text10"      -> 10
      [] t = "text20"      -> 20
      [] t = "text180"     -> 180
      [] OTHER             -> 1

RECURSIVE StrLen(_)
StrLen(s) == IF s = <<>> THEN 0 ELSE TokLen(Head(s)) + StrLen(Tail(s))

\* 'word' in sentence
Contains(s, word) == \E i \in 1..Len(s) : s[i] = word

\* str.strip(): leading and trailing whitespace removed.
RECURSIVE LStrip(_)
LStrip(s) == IF s # <<>> /\ Head(s) = Blank THEN LStrip(Tail(s)) ELSE s

RECURSIVE RStrip(_)
RStrip(s) ==
    IF s # <<>> /\ s[Len(s)] = Blank THEN RStrip(SubSeq(s, 1, Len(s) - 1))
    ELSE s

Strip(s) == RStrip(LStrip(s))

\* str.split('.'): n periods cut the text into n + 1 pieces, empty ones kept.
Split(text) ==
    LET IsCut(i) == text[i] = Period
        cuts == SelectSeq([i \in 1..Len(text) |-> i], IsCut)
        n    == Len(cuts)
        from(k) == IF k = 1 THEN 1 ELSE cuts[k - 1] + 1
        to(k)   == IF k = n + 1 THEN Len(text) ELSE cuts[k] - 1
    IN  [k \in 1..(n + 1) |-> SubSeq(text, from(k), to(k))]

ScanLimit   == 1000
MaxRawLen   == 200
MinCleanLen == 30
MaxQuotes   == 3

Topic == "English Requirement"

FallbackQuote ==
    [text  |-> <<"Candidates for the Leaving Certificate must demonstrate proficiency in English", Period>>,
     topic |-> Topic]

\* The test of the loop body: both words, the raw length under 200, and the
\* stripped length over 30.
Accepted(sentence) ==
    /\ Contains(sentence, "English")
    /\ Contains(sentence, "certificate")
    /\ StrLen(sentence) < MaxRawLen
    /\ StrLen(Strip(sentence)) > MinCleanLen

MakeQuote(sentence) ==
    [text |-> Append(Strip(sentence), Period), topic |-> Topic]

\* The loop without its break at three quotes.
CollectQuotesNoBreak(sentences) ==
    LET scanned == SubSeq(sentences, 1, Min(ScanLimit, Len(sentences)))
        hits    == SelectSeq(scanned, Accepted)
    IN  [j \in 1..Len(hits) |-> MakeQuote(hits[j])]

\* The loop over sentences[:1000], left once three quotes are collected.
CollectQuotes(sentences) ==
    LET scanned == SubSeq(sentences, 1, Min(ScanLimit, Len(sentences)))
        hits    == SelectSeq(scanned, Accepted)
        kept    == SubSeq(hits, 1, Min(MaxQuotes, Len(hits)))
    IN  [j \in 1..Len(kept) |-> MakeQuote(kept[j])]

\* extract_quotes that also falls back when the loop collected nothing.
ExtractQuotesFallbackWhenEmpty(status, text) ==
    IF status = "ok" /\ CollectQuotes(Split(text)) # <<>>
      THEN CollectQuotes(Split(text))
      ELSE <<FallbackQuote>>

\* extract_quotes whose except branch keeps the quotes collected so far.
ExtractQuotesKeepsCollected(status, text) ==
    IF status = "ok" THEN CollectQuotes(Split(text))
    ELSE <<>>

\* extract_quotes: the try body on a file that opens, the except branch on
\* one that does not.
ExtractQuotes(status, text) ==
    IF status = "ok" THEN CollectQuotes(Split(text))
    ELSE <<FallbackQuote>>

----------------------------------------------------------------------------
(* pyplot.  plt.subplots() opens a figure and makes it the current one;    *)
(* plt.savefig() and plt.close() take no figure and act on the current     *)
(* one, the last of the open figures.  A figure is named by its rank of    *)
(* creation.                                                               *)

Renderers == {"timeline", "subjects", "trends"}

Png(r) ==
    CASE r = "timeline" -> TimelinePng
      [] r = "subjects" -> SubjectsPng
      [] r = "trends"   -> TrendsPng

RendererName(r) ==
    CASE r = "timeline" -> "create_timeline_chart"
      [] r = "subjects" -> "create_language_subjects_chart"
      [] r = "trends"   -> "create_language_trends_chart"

NoFigures == [open |-> <<>>, count |-> 0, drawn |-> <<>>, closedBy |-> <<>>]

\* fig, ax = plt.subplots(...): a new figure, appended as the current one.
PltSubplots(p) ==
    [open     |-> Append(p.open, p.count + 1),
     count    |-> p.count + 1,
     drawn    |-> Append(p.drawn, {}),
     closedBy |-> Append(p.closedBy, {})]

\* ax.plot(...), ax.bar(...), ...: on the axes of the renderer's own figure.
PltDraw(p, fig, r) ==
    [p EXCEPT !.drawn[fig] = @ \cup {r}]

\* plt.gcf(): the current figure, opened first when none is open.
PltGcf(p) == IF p.open = <<>> THEN PltSubplots(p) ELSE p

Current(p) == p.open[Len(p.open)]

\* What plt.savefig(path) writes: the current figure as it is drawn.
Saved(p) ==
    LET q == PltGcf(p) IN [fig |-> Current(q), drawnBy |-> q.drawn[Current(q)]]

\* A plt.close() that closes nothing.
PltCloseNothing(p, r) == p

\* plt.close(): closes the current figure, nothing when none is open.
PltClose(p, r) ==
    IF p.open = <<>> THEN p
    ELSE [p EXCEPT !.open = SubSeq(p.open, 1, Len(p.open) - 1),
                   !.closedBy[Current(p)] = @ \cup {r}]

\* outputs with `file` written.
Write(out, file, content) ==
    [f \in (DOMAIN out) \cup {file} |-> IF f = file THEN content ELSE out[f]]

Written == DOMAIN outputs

----------------------------------------------------------------------------
(* Inputs.                                                                 *)

TimelineRow(y, c) == [Year |-> y, Count |-> c]
MergedRow(s, y, c) == [Subject |-> s, Year |-> y, Count |-> c]

\* A timeline from 1888 to 1962 with no documents in 1944 and 1945.
HistoricTimeline ==
    <<TimelineRow(1888, 2), TimelineRow(1939, 3), TimelineRow(1943, 1),
      TimelineRow(1944, 0), TimelineRow(1945, 0), TimelineRow(1946, 4),
      TimelineRow(1962, 5)>>

HistoricMerged ==
    <<MergedRow(<<"ENGLISH">>, 1900, 4), MergedRow(<<"GAELIC">>, 1900, 1),
      MergedRow(<<"FRENCH">>, 1900, 2),
      MergedRow(<<"GAELIC", " (LEARNERS)">>, 1950, 2),
      MergedRow(<<"ENGLISH">>, 1950, 3)>>

\* Every Subject cell empty.
BlankSubjectMerged == <<MergedRow(NaN, 1900, 1)>>

SampleTimelines == {HistoricTimeline, <<>>}
SampleMerged    == {HistoricMerged, BlankSubjectMerged}

LongSentence  == <<Blank, "English", "text20", Blank, "certificate">>
OtherSentence == <<"certificate", "text20", "English", Blank>>
ShortSentence == <<"English", Blank, "certificate">>
PlainSentence == <<"text20", Blank, "text20">>

TwoQuoteCorpus ==
    PlainSentence \o <<Period>> \o LongSentence \o <<Period>> \o
    ShortSentence \o <<Period>> \o OtherSentence \o <<Period>>
NoQuoteCorpus == PlainSentence \o <<Period>> \o ShortSentence

SampleCorpora == {TwoQuoteCorpus, NoQuoteCorpus}

NoTables == <<>>
NoStats  == [ok |-> FALSE, pending |-> TRUE]
NoOutputs == [f \in {} |-> 0]

----------------------------------------------------------------------------
(* main().                                                                 *)

\* main() with the call of create_language_subjects_chart left out.
NextStageSkipsSubjects(r) ==
    CASE r = "timeline" -> "trends"
      [] r = "subjects" -> "trends"
      [] r = "trends"   -> "extract"

NextStage(r) ==
    CASE r = "timeline" -> "subjects"
      [] r = "subjects" -> "trends"
      [] r = "trends"   -> "extract"

\* load_data: the three read_csv calls in order; the first file that does
\* not open decides the exception (FileNotFoundError for a missing file,
\* PermissionError for one that cannot be read).
RECURSIVE LoadFrom(_, _)
LoadFrom(status, i) ==
    IF i > Len(CsvFiles) THEN "ok"
    ELSE IF status[CsvFiles[i]] = "missing" THEN "FileNotFoundError"
    ELSE IF status[CsvFiles[i]] = "unreadable" THEN "PermissionError"
    ELSE LoadFrom(status, i + 1)

\* load_data that never opens its first file.
LoadDataSkipsFirst(status) == LoadFrom(status, 2)

LoadData(status) == LoadFrom(status, 1)

\* CheckDataDir without the return that follows the diagnostic.
CheckDataDirNoReturn ==
    /\ pc = "check"
    /\ pc' = "load"
    /\ printed' = IF dataDir THEN printed ELSE printed \cup {"dir_not_found"}
    /\ UNCHANGED <<envVars, tables, quotes, stats, outputs, called, plt, rendVars>>

\* if not os.path.exists(DATA_DIR): print the diagnostic and return.
CheckDataDir ==
    /\ pc = "check"
    /\ IF dataDir
         THEN pc' = "load" /\ printed' = printed
         ELSE pc' = "returned" /\ printed' = printed \cup {"dir_not_found"}
    /\ UNCHANGED <<envVars, tables, quotes, stats, outputs, called, plt, rendVars>>

\* try: load_data()  except FileNotFoundError: print the guidance and return.
MainLoad ==
    /\ pc = "load"
    /\ called' = called \cup {"load_data"}
    /\ LET res == LoadData(fileStatus) IN
         CASE res = "ok" ->
                /\ tables' = [doc_timeline |-> timelineCsv, merged_data |-> mergedCsv]
                /\ pc' = "timeline"
                /\ printed' = printed
           [] res = "FileNotFoundError" ->
                /\ tables' = tables
                /\ pc' = "returned"
                /\ printed' = printed \cup {"file_not_found"}
           [] OTHER ->
                /\ tables' = tables
                /\ pc' = "crashed"
                /\ printed' = printed
    /\ UNCHANGED <<envVars, quotes, stats, outputs, plt, rendVars>>

\* One renderer, from plt.subplots to plt.close; an output that cannot be
\* opened makes plt.savefig raise, which leaves the figure open.
MainRender(r) ==
    /\ pc = r
    /\ called' = called \cup {RendererName(r)}
    /\ LET p1 == PltSubplots(plt)
           p2 == PltDraw(p1, Current(p1), r)
       IN  IF outputFault = Png(r)
             THEN /\ plt' = PltGcf(p2)
                  /\ outputs' = outputs
                  /\ pc' = "crashed"
             ELSE /\ plt' = PltClose(PltGcf(p2), r)
                  /\ outputs' = Write(outputs, Png(r), Saved(p2))
                  /\ pc' = NextStage(r)
    /\ UNCHANGED <<envVars, tables, quotes, stats, printed, rendVars>>

\* A call of extract_quotes(), its result bound to `quotes`.
ExtractQuotesCall(returnPc) ==
    /\ called' = called \cup {"extract_quotes"}
    /\ quotes' = ExtractQuotes(fileStatus[CorpusFile], corpus)
    /\ pc' = returnPc
    /\ UNCHANGED <<envVars, tables, stats, outputs, printed, plt, rendVars>>

\* quotes = extract_quotes()
MainExtract ==
    /\ pc = "extract"
    /\ ExtractQuotesCall("write_quotes")

\* with open(quotes.json, 'w') as f: json.dump(quotes, f)
MainWriteQuotes ==
    /\ pc = "write_quotes"
    /\ IF outputFault = QuotesJson
         THEN pc' = "crashed" /\ outputs' = outputs
         ELSE pc' = "statistics" /\ outputs' = Write(outputs, QuotesJson, quotes)
    /\ UNCHANGED <<envVars, tables, quotes, stats, printed, called, plt, rendVars>>

\* generate_statistics called on the loaded tables: the statistics are
\* computed, then statistics.json is opened and written.
GenerateStatisticsCall(returnPc, raisePc) ==
    /\ called' = called \cup {"generate_statistics"}
    /\ LET st == GenerateStatistics(tables.doc_timeline, tables.merged_data) IN
         IF ~st.ok \/ outputFault = StatsJson
           THEN pc' = raisePc /\ outputs' = outputs /\ stats' = stats
           ELSE pc' = returnPc /\ outputs' = Write(outputs, StatsJson, st) /\ stats' = st
    /\ UNCHANGED <<envVars, tables, quotes, printed, plt, rendVars>>

\* stats = generate_statistics(doc_timeline, merged_data)
MainStatistics ==
    /\ pc = "statistics"
    /\ GenerateStatisticsCall("done", "crashed")

Init ==
    /\ dataDir \in BOOLEAN
    /\ fileStatus \in [RequiredFiles -> Statuses]
    /\ ~dataDir => \A f \in RequiredFiles : fileStatus[f] = "missing"
    /\ timelineCsv \in SampleTimelines
    /\ mergedCsv \in SampleMerged
    /\ corpus \in SampleCorpora
    /\ outputFault \in OutputFiles \cup {NoFault}
    /\ pc = "check"
    /\ tables = NoTables
    /\ quotes = <<>>
    /\ stats = NoStats
    /\ outputs = NoOutputs
    /\ printed = {}
    /\ called = {}
    /\ plt = NoFigures
    /\ mode = "main"
    /\ rpc = [r \in Renderers |-> "idle"]
    /\ rfig = [r \in Renderers |-> 0]

Next ==
    \/ CheckDataDir
    \/ MainLoad
    \/ \E r \in Renderers : MainRender(r)
    \/ MainExtract
    \/ MainWriteQuotes
    \/ MainStatistics

Spec == Init /\ [][Next]_vars

----------------------------------------------------------------------------
(* Properties of main().                                                   *)

Terminal == {"done", "returned", "crashed"}

CsvSet == {CsvFiles[i] : i \in 1..Len(CsvFiles)}
CsvAllOk == \A f \in CsvSet : fileStatus[f] = "ok"

\* The first file, in load order, that does not open.
FirstBadCsv ==
    LET bad == {i \in 1..Len(CsvFiles) : fileStatus[CsvFiles[i]] # "ok"}
    IN  CsvFiles[CHOOSE i \in bad : \A j \in bad : i <= j]

\* The tables are ones generate_statistics does not raise on.
TablesComputable ==
    /\ timelineCsv # <<>>
    /\ mergedCsv = <<>> \/ \E i \in 1..Len(mergedCsv) : mergedCsv[i].Subject # NaN

\* C1: with the data directory missing, main() prints the directory-not-found
\* diagnostic and returns; no output file is written and none of load_data,
\* the renderers, extract_quotes and generate_statistics is invoked.
C1_MissingDirNoOutputs ==
    ~dataDir =>
        /\ called = {}
        /\ Written = {}
        /\ pc \in {"check", "returned"}
        /\ pc = "returned" => "dir_not_found" \in printed

C1_Witness == ~dataDir /\ pc = "returned" /\ "dir_not_found" \in printed

\* C2 as stated: the data directory exists and some required file does not
\* open; main() then ends by reporting with guidance and returning, with no
\* output written.
C2_AnyRequiredFileAborts ==
    (dataDir /\ pc \in Terminal /\ \E f \in RequiredFiles : fileStatus[f] # "ok")
        => (pc = "returned" /\ "file_not_found" \in printed /\ Written = {})

\* C2 amended: when one of the three CSV files load_data reads does not
\* open, no output is written and nothing but load_data is invoked; main()
\* reports with guidance and returns when the first such file is missing,
\* and ends on the uncaught error when it is unreadable.  A corpus that does
\* not open never makes main() return early.
C2_CsvLoadFailureNoOutputs ==
    /\ (dataDir /\ ~CsvAllOk) =>
          /\ Written = {}
          /\ called \subseteq {"load_data"}
          /\ pc \in {"check", "load", "returned", "crashed"}
          /\ pc \in Terminal =>
               IF fileStatus[FirstBadCsv] = "missing"
                 THEN pc = "returned" /\ "file_not_found" \in printed
                 ELSE pc = "crashed" /\ printed = {}
    /\ (dataDir /\ CsvAllOk) => pc # "returned"

C2_Witness ==
    /\ dataDir /\ fileStatus[MergedFile] = "missing"
    /\ fileStatus[TimelineFile] = "ok" /\ fileStatus[SubjectsFile] = "ok"
    /\ pc = "returned" /\ "file_not_found" \in printed /\ Written = {}

\* C8: when educationcomms.txt does not open while the three CSV files do,
\* extract_quotes returns the one fallback quote and the failure ends
\* nothing: with tables the statistics can be computed from and no output
\* that cannot be written, main() never ends early, quotes.json holds
\* exactly the fallback quote and the run ends with all five outputs.
C8_CorpusFailureRecovered ==
    (dataDir /\ CsvAllOk /\ fileStatus[CorpusFile] # "ok") =>
        /\ "extract_quotes" \in called => quotes = <<FallbackQuote>>
        /\ QuotesJson \in Written => outputs[QuotesJson] = <<FallbackQuote>>
        /\ pc = "done" => Written = OutputFiles
        /\ (outputFault = NoFault /\ TablesComputable) =>
              /\ pc \notin {"returned", "crashed"}
              /\ StatsJson \in Written => QuotesJson \in Written

C8_Witness ==
    /\ fileStatus[CorpusFile] = "missing" /\ CsvAllOk
    /\ pc = "done" /\ Written = OutputFiles
    /\ outputs[QuotesJson] = <<FallbackQuote>>

\* The first k outputs of the order main() writes them in.
OutputPrefix(k) == {OutputOrder[i] : i \in 1..k}

WrittenIsPrefix == \E k \in 0..Len(OutputOrder) : Written = OutputPrefix(k)

\* C10: from no outputs, the outputs written are at every moment a prefix of
\* timeline_chart.png, language_subjects_chart.png,
\* language_trends_chart.png, quotes.json, statistics.json, and no step,
\* a failing one included, removes or changes an output already written.
C10_OutputsPrefixNoRollback ==
    /\ [] WrittenIsPrefix
    /\ [][\A f \in DOMAIN outputs :
             f \in DOMAIN outputs' /\ outputs'[f] = outputs[f]]_vars

\* A run that failed in generate_statistics, the four earlier outputs left.
C10_Witness ==
    /\ pc = "crashed"
    /\ "generate_statistics" \in called
    /\ Written = OutputPrefix(4)

----------------------------------------------------------------------------
(* extract_quotes on its own: the corpus is drawn from sentences of each   *)
(* kind the loop's test tells apart, each followed by a period, behind     *)
(* a run of periods that moves them towards or past the 1000th piece.      *)

MaxSentences       == 4
MaxPaddedSentences == 2

Exactly30Sentence == <<"English", Blank, "certificate", Blank, "text10">>
Just31Sentence    == <<Blank, "English", Blank, "certificate", Blank, Blank, "text10">>
Near200Sentence   == <<"English", "text180", "certificate", Blank>>
Raw200Sentence    == <<"English", "text180", "certificate", Blank, Blank>>
LowerCaseSentence == <<"english", "text20", "certificate">>
OneWordSentence   == <<"English", "text20", "text20">>

SentenceKinds ==
    {LongSentence, OtherSentence, PlainSentence, Exactly30Sentence,
     Just31Sentence, Near200Sentence, Raw200Sentence, LowerCaseSentence,
     OneWordSentence}

Pads == {998, 999, 1000}

SeqsUpTo(S, n) == UNION {[1..k -> S] : k \in 0..n}

RECURSIVE JoinSentences(_)
JoinSentences(body) ==
    IF body = <<>> THEN <<>>
    ELSE Head(body) \o <<Period>> \o JoinSentences(Tail(body))

Periods(n) == [i \in 1..n |-> Period]

Corpora ==
    {JoinSentences(b) : b \in SeqsUpTo(SentenceKinds, MaxSentences)}
    \cup {Periods(n) \o JoinSentences(b) :
            n \in Pads, b \in SeqsUpTo(SentenceKinds, MaxPaddedSentences)}

InitQuotes ==
    /\ dataDir = TRUE
    /\ \E st \in Statuses :
         /\ fileStatus = [f \in RequiredFiles |-> IF f = CorpusFile THEN st ELSE "ok"]
         /\ IF st = "ok" THEN corpus \in Corpora ELSE corpus = <<>>
    /\ timelineCsv = HistoricTimeline
    /\ mergedCsv = HistoricMerged
    /\ outputFault = NoFault
    /\ pc = "call"
    /\ tables = NoTables
    /\ quotes = <<>>
    /\ stats = NoStats
    /\ outputs = NoOutputs
    /\ printed = {}
    /\ called = {}
    /\ plt = NoFigures
    /\ mode = "function"
    /\ rpc = [r \in Renderers |-> "idle"]
    /\ rfig = [r \in Renderers |-> 0]

\* extract_quotes() called on its own.
CallExtractQuotes ==
    /\ pc = "call"
    /\ ExtractQuotesCall("return")

NextQuotes == CallExtractQuotes

SpecQuotes == InitQuotes /\ [][NextQuotes]_vars

\* The test as the specification words it: both words and under 200
\* characters.
SpecQualifies(sentence) ==
    /\ Contains(sentence, "English")
    /\ Contains(sentence, "certificate")
    /\ StrLen(sentence) < 200

\* The test with the stripped length over 30 as well.
CodeQualifies(sentence) ==
    SpecQualifies(sentence) /\ StrLen(Strip(sentence)) > 30

\* The j-th smallest member of a set of indices.
Nth(Q, j) == CHOOSE i \in Q : Cardinality({k \in Q : k < i}) = j - 1

Returned == pc = "return"
Readable == fileStatus[CorpusFile] = "ok"

\* C3 as stated: a readable corpus with no qualifying sentence gives the
\* one-element fallback list, and the list returned is never empty.
C3_FallbackWhenNoneQualify ==
    Returned =>
        LET pieces == Split(corpus)
            Q == {i \in 1..Min(1000, Len(pieces)) : SpecQualifies(pieces[i])}
        IN  /\ (Readable /\ Q = {}) => quotes = <<FallbackQuote>>
            /\ quotes # <<>>

\* C3 amended: a readable corpus none of whose first 1000 pieces passes the
\* test gives the empty list; the one-element fallback list is what a
\* corpus that does not open gives.
C3_EmptyWhenNoneQualify ==
    Returned =>
        LET pieces == Split(corpus)
            Q == {i \in 1..Min(1000, Len(pieces)) : CodeQualifies(pieces[i])}
        IN  /\ (Readable /\ Q = {}) => quotes = <<>>
            /\ ~Readable => quotes = <<FallbackQuote>>
            /\ (Readable /\ Q # {}) => quotes # <<>> /\ FallbackQuote \notin {quotes[j] : j \in 1..Len(quotes)}

C3_Witness ==
    /\ Returned /\ Readable /\ quotes = <<>>
    /\ corpus = JoinSentences(<<PlainSentence, LowerCaseSentence>>)

\* C4 as stated: min(3, k) entries, k the number of pieces among the first
\* 1000 with both words and under 200 characters.
C4_CountBySpecTest ==
    (Returned /\ Readable) =>
        LET pieces == Split(corpus)
            Q == {i \in 1..Min(1000, Len(pieces)) : SpecQualifies(pieces[i])}
        IN  Len(quotes) = Min(3, Cardinality(Q))

\* C4 amended: min(3, k) entries, k the number of pieces among the first
\* 1000 with both words, under 200 characters and, stripped, over 30
\* characters; the entries are the first such pieces in order, each stripped
\* and ended with a period.
C4_FirstThreeAccepted ==
    (Returned /\ Readable) =>
        LET pieces == Split(corpus)
            Q == {i \in 1..Min(1000, Len(pieces)) : CodeQualifies(pieces[i])}
        IN  /\ Len(quotes) = Min(3, Cardinality(Q))
            /\ \A j \in 1..Len(quotes) :
                 quotes[j] = [text  |-> Strip(pieces[Nth(Q, j)]) \o <<Period>>,
                              topic |-> "English Requirement"]

\* Exactly two accepted sentences, one of them stripped of its blanks.
C4_Witness ==
    /\ Returned /\ Readable
    /\ corpus = JoinSentences(<<OtherSentence, PlainSentence, LongSentence>>)
    /\ quotes = <<[text |-> <<"certificate", "text20", "English", Period>>, topic |-> "English Requirement"],
                  [text |-> <<"English", "text20", Blank, "certificate", Period>>, topic |-> "English Requirement"]>>

----------------------------------------------------------------------------
(* generate_statistics on its own: timelines with years on both sides of   *)
(* each end of 1939-1945, merged tables with subjects of each spelling.    *)

MaxTimelineRows == 2
MaxMergedRows   == 2

Years  == {1938, 1939, 1942, 1945, 1946}
Counts == {0, 1, 2}

Subjects ==
    {<<"ENGLISH">>, <<"ENGLISH", " LITERATURE">>, <<"English">>,
     <<"GAELIC">>, <<"GAELIC", " (LEARNERS)">>, <<"GAELIC", " (NATIVE SPEAKERS)">>,
     <<"Gaelic">>, <<"FRENCH">>, NaN}

\* The subjects of the Gaelic family.
GaelicFamily ==
    {<<"GAELIC">>, <<"GAELIC", " (LEARNERS)">>, <<"GAELIC", " (NATIVE SPEAKERS)">>}

TimelineRows == {TimelineRow(y, c) : y \in Years, c \in Counts}
MergedRows   == {MergedRow(s, 1900, c) : s \in Subjects, c \in {1, 2}}

Timelines    == SeqsUpTo(TimelineRows, MaxTimelineRows) \cup {HistoricTimeline}
MergedTables == SeqsUpTo(MergedRows, MaxMergedRows) \cup {HistoricMerged}

InitStats ==
    /\ dataDir = TRUE
    /\ fileStatus = [f \in RequiredFiles |-> "ok"]
    /\ \/ timelineCsv \in Timelines /\ mergedCsv \in SampleMerged
       \/ timelineCsv \in SampleTimelines /\ mergedCsv \in MergedTables
    /\ corpus = <<>>
    /\ outputFault = NoFault
    /\ pc = "call"
    /\ tables = [doc_timeline |-> timelineCsv, merged_data |-> mergedCsv]
    /\ quotes = <<>>
    /\ stats = NoStats
    /\ outputs = NoOutputs
    /\ printed = {}
    /\ called = {}
    /\ plt = NoFigures
    /\ mode = "function"
    /\ rpc = [r \in Renderers |-> "idle"]
    /\ rfig = [r \in Renderers |-> 0]

\* generate_statistics(doc_timeline, merged_data) called on its own.
CallGenerateStatistics ==
    /\ pc = "call"
    /\ GenerateStatisticsCall("return", "raise")

NextStats == CallGenerateStatistics

SpecStats == InitStats /\ [][NextStats]_vars

\* The sum of Document Count over the rows at the indices I.
RECURSIVE SumAt(_, _)
SumAt(rows, I) ==
    IF I = {} THEN 0
    ELSE LET i == CHOOSE k \in I : TRUE IN rows[i].Count + SumAt(rows, I \ {i})

StatsWritten == pc = "return" /\ StatsJson \in Written

\* C5: whenever generate_statistics yields statistics, total_years is the
\* largest Year minus the smallest and war_year_drop is the sum of Document
\* Count over exactly the rows with 1939 <= Year <= 1945; it yields them for
\* every timeline that has rows, and for the timeline from 1888 to 1962 with
\* no documents in 1944 and 1945 total_years is 74.
C5_YearsAndWarDrop ==
    /\ pc = "return" =>
          LET t  == timelineCsv
              n  == Len(t)
              hi == CHOOSE i \in 1..n : \A j \in 1..n : t[j].Year <= t[i].Year
              lo == CHOOSE i \in 1..n : \A j \in 1..n : t[i].Year <= t[j].Year
          IN  /\ stats.total_years = t[hi].Year - t[lo].Year
              /\ stats.war_year_drop =
                   SumAt(t, {i \in 1..n : t[i].Year \in 1939..1945})
              /\ outputs[StatsJson] = stats
              /\ t = HistoricTimeline => stats.total_years = 74
    /\ (pc # "call" /\ timelineCsv # <<>> /\ mergedCsv = HistoricMerged) => pc = "return"

C5_Witness ==
    /\ StatsWritten
    /\ timelineCsv = HistoricTimeline
    /\ stats.total_years = 74 /\ stats.war_year_drop = 4

NoEnglishRow == \A i \in 1..Len(mergedCsv) : mergedCsv[i].Subject # <<"ENGLISH">>

\* C7 as stated: english_dominance in statistics.json is the sum over the
\* rows with Subject == 'ENGLISH', and a table with no such row gives 0 and
\* raises no error.
C7_EnglishZeroNeverRaises ==
    (pc # "call" /\ timelineCsv # <<>>) =>
        /\ pc = "return" =>
              outputs[StatsJson].english_dominance =
                 SumAt(mergedCsv, {i \in 1..Len(mergedCsv) : mergedCsv[i].Subject = <<"ENGLISH">>})
        /\ NoEnglishRow =>
              pc = "return" /\ outputs[StatsJson].english_dominance = 0

\* C7 amended: english_dominance in statistics.json is the sum over exactly
\* the rows with Subject == 'ENGLISH', 0 when there is none; on a timeline
\* with rows no error is raised unless the merged table has rows and every
\* Subject of it is missing, and then nothing is written.
C7_EnglishDominance ==
    (pc # "call" /\ timelineCsv # <<>>) =>
        /\ pc = "return" =>
              /\ outputs[StatsJson].english_dominance =
                   SumAt(mergedCsv, {i \in 1..Len(mergedCsv) : mergedCsv[i].Subject = <<"ENGLISH">>})
              /\ NoEnglishRow => outputs[StatsJson].english_dominance = 0
        /\ pc = "raise" <=>
              (mergedCsv # <<>> /\ \A i \in 1..Len(mergedCsv) : mergedCsv[i].Subject = NaN)
        /\ pc = "raise" => Written = {}

C7_Witness ==
    /\ StatsWritten
    /\ mergedCsv = <<MergedRow(<<"ENGLISH", " LITERATURE">>, 1900, 2), MergedRow(<<"English">>, 1900, 1)>>
    /\ outputs[StatsJson].english_dominance = 0

----------------------------------------------------------------------------
(* The three renderers step by step, run one after another in any order or *)
(* with their steps interleaved.                                           *)

InitRender ==
    /\ dataDir = TRUE
    /\ fileStatus = [f \in RequiredFiles |-> "ok"]
    /\ timelineCsv = HistoricTimeline
    /\ mergedCsv = HistoricMerged
    /\ corpus = TwoQuoteCorpus
    /\ outputFault = NoFault
    /\ pc = "render"
    /\ tables = [doc_timeline |-> timelineCsv, merged_data |-> mergedCsv]
    /\ quotes = <<>>
    /\ stats = NoStats
    /\ outputs = NoOutputs
    /\ printed = {}
    /\ called = {}
    /\ plt = NoFigures
    /\ mode \in {"sequential", "interleaved"}
    /\ rpc = [r \in Renderers |-> "idle"]
    /\ rfig = [r \in Renderers |-> 0]

Running(r) == rpc[r] \in {"draw", "save", "close"}

\* fig, ax = plt.subplots(figsize=...)
RenderCreate(r) ==
    /\ rpc[r] = "idle"
    /\ mode = "sequential" => \A o \in Renderers : ~Running(o)
    /\ plt' = PltSubplots(plt)
    /\ rfig' = [rfig EXCEPT ![r] = Current(plt')]
    /\ rpc' = [rpc EXCEPT ![r] = "draw"]
    /\ called' = called \cup {RendererName(r)}
    /\ UNCHANGED <<envVars, pc, tables, quotes, stats, outputs, printed, mode>>

\* The ax.* calls, on the axes plt.subplots returned.
RenderDraw(r) ==
    /\ rpc[r] = "draw"
    /\ plt' = PltDraw(plt, rfig[r], r)
    /\ rpc' = [rpc EXCEPT ![r] = "save"]
    /\ UNCHANGED <<envVars, mainVars, outputs, mode, rfig>>

\* plt.savefig(output_path, ...)
RenderSave(r) ==
    /\ rpc[r] = "save"
    /\ plt' = PltGcf(plt)
    /\ outputs' = Write(outputs, Png(r), Saved(plt))
    /\ rpc' = [rpc EXCEPT ![r] = "close"]
    /\ UNCHANGED <<envVars, mainVars, mode, rfig>>

\* plt.close()
RenderClose(r) ==
    /\ rpc[r] = "close"
    /\ plt' = PltClose(plt, r)
    /\ rpc' = [rpc EXCEPT ![r] = "done"]
    /\ UNCHANGED <<envVars, mainVars, outputs, mode, rfig>>

NextRender ==
    \E r \in Renderers :
        \/ RenderCreate(r)
        \/ RenderDraw(r)
        \/ RenderSave(r)
        \/ RenderClose(r)

SpecRender == InitRender /\ [][NextRender]_vars

\* The PNG of r holds the figure r created, as r drew it.
SavedOwnFigure(r) ==
    Png(r) \in Written =>
        outputs[Png(r)] = [fig |-> rfig[r], drawnBy |-> {r}]

\* Nothing but r closed the figure r created, and r closed no other.
ClosedOnlyOwn(r) ==
    /\ rfig[r] # 0 => plt.closedBy[rfig[r]] \subseteq {r}
    /\ rpc[r] = "done" => r \in plt.closedBy[rfig[r]]

\* C9 as stated: under any ordering or interleaving of the renderers'
\* steps, each PNG receives the figure its renderer created and each
\* renderer closes only its own figure.
C9_IndependentUnderInterleaving ==
    \A r \in Renderers : SavedOwnFigure(r) /\ ClosedOnlyOwn(r)

\* C9 amended: run one after another, in any order, each renderer's PNG
\* receives the figure that renderer created and each renderer closes its
\* own figure and no other.  (The renderers share pyplot's current figure,
\* which plt.savefig and plt.close act on: with their steps interleaved a
\* renderer saves and closes the figure created last.)
C9_IndependentInAnyOrder ==
    mode = "sequential" =>
        \A r \in Renderers : SavedOwnFigure(r) /\ ClosedOnlyOwn(r)

\* The three ran in an order other than main()'s.
C9_Witness ==
    /\ mode = "sequential"
    /\ \A r \in Renderers : rpc[r] = "done" /\ Png(r) \in Written
    /\ rfig["trends"] = 1 /\ rfig["timeline"] = 3
    /\ outputs[TimelinePng].fig = 3

====
